---- MODULE Spec2Model ----
(***************************************************************************)
(* GuardAI dashboard (src/app77.py): a Streamlit script that loads an      *)
(* access-log CSV, masks PII, aggregates per-IP features, runs an          *)
(* Isolation Forest and reports suspicious IPs.                            *)
(*                                                                         *)
(* Strings are sequences of one-character strings.  An optional value      *)
(* (None / NaN / NaT / "not yet assigned") is the empty sequence <<>>, a   *)
(* present value v is <<v>>.                                               *)
(***************************************************************************)
EXTENDS Integers, Sequences, FiniteSets, TLC

VARIABLES
    uploaded_file,  \* st.file_uploader widget: <<>> or <<file>>
    df,             \* script global df: <<>> or <<[cols, rows]>>
    agg,            \* script global agg: <<>> or <<[IP -> feature row]>>
    Anomaly,        \* agg["Anomaly"]: <<>> or <<[IP -> {1,-1}]>>
    df_susp,        \* script global df_susp: <<>> or <<rows>>
    out,            \* the st.* elements rendered by the current script run
    err,            \* the exception that ended the current script run
    cache,          \* st.cache_data store of load_data: file -> df
    forest,         \* what the forest of seed 42 has returned: X -> result
    first,          \* snapshot of the first completed run with a file
    runs,           \* number of script runs with a file so far
    maskFn,         \* masking harness: which helper is applied
    maskIn,         \* masking harness: the helper's argument
    maskOut         \* masking harness: <<>> or <<result>>

vars == <<uploaded_file, df, agg, Anomaly, df_susp, out, err, cache, forest,
          first, runs, maskFn, maskIn, maskOut>>

pipeVars == <<uploaded_file, df, agg, Anomaly, df_susp, out, err, cache,
              forest, first, runs>>

maskVars == <<maskFn, maskIn, maskOut>>

(***************************************************************************)
(* Bounds of the model.                                                    *)
(***************************************************************************)
MaxIpLen == 9
MaxEmailLen == 5
MaxRows == 2
MaxActors == 8
MaxRepeatActors == 3
MaxRuns == 2
MaxScore == 1

(***************************************************************************)
(* Python string helpers.                                                  *)
(***************************************************************************)
Range(f) == {f[x] : x \in DOMAIN f}

\* Strings over alphabet A of length at most n.
StringsUpTo(A, n) == UNION {[1..k -> A] : k \in 0..n}

\* Number of occurrences of character c in s.
CountChar(s, c) == Cardinality({i \in 1..Len(s) : s[i] = c})

\* Index of the first occurrence of c in s (0 when there is none).
FirstIndex(s, c) ==
    IF \E i \in 1..Len(s) : s[i] = c
    THEN CHOOSE i \in 1..Len(s) : s[i] = c /\ \A j \in 1..(i-1) : s[j] # c
    ELSE 0

\* str.split(sep) for a one-character separator: occurrences + 1 pieces.
RECURSIVE Split(_, _)
Split(s, sep) ==
    LET i == FirstIndex(s, sep)
    IN  IF i = 0
        THEN <<s>>
        ELSE <<SubSeq(s, 1, i - 1)>> \o Split(SubSeq(s, i + 1, Len(s)), sep)

\* sep.join(parts)
RECURSIVE Join(_, _)
Join(parts, sep) ==
    IF Len(parts) = 0 THEN <<>>
    ELSE IF Len(parts) = 1 THEN parts[1]
    ELSE parts[1] \o <<sep>> \o Join(Tail(parts), sep)

\* list[:n]
Take(l, n) == SubSeq(l, 1, IF Len(l) < n THEN Len(l) ELSE n)

XXX == <<"x", "x", "x">>
Stars == <<"*", "*", "*">>
InvalidEmail == <<"Invalid Email">>

(***************************************************************************)
(* PII masking.                                                            *)
(***************************************************************************)
\* A Python value that is a string, or (isStr = FALSE) a float NaN.
Str(s) == [isStr |-> TRUE, s |-> s]
NaNValue == [isStr |-> FALSE, s |-> <<>>]

\* lambda x: ".".join(x.split(".")[:2] + ["xxx", "xxx"])
mask_ip_keep3(x) == Join(Take(Split(x, "."), 3) \o <<XXX, XXX>>, ".")
mask_ip(x) == Join(Take(Split(x, "."), 2) \o <<XXX, XXX>>, ".")

\* mask_email: the bare except turns every exception (unpacking other than
\* two pieces, .split on a non-string) into "Invalid Email".
mask_email_ge1(email) ==
    IF ~email.isStr THEN InvalidEmail
    ELSE LET parts == Split(email.s, "@")
         IN  IF Len(parts) # 2 THEN InvalidEmail
             ELSE LET local == parts[1]
                      domain == parts[2]
                      local_masked == IF Len(local) >= 1
                                      THEN <<local[1]>> \o Stars
                                      ELSE <<"*">>
                  IN  local_masked \o <<"@">> \o domain
mask_email(email) ==
    IF ~email.isStr THEN InvalidEmail
    ELSE LET parts == Split(email.s, "@")
         IN  IF Len(parts) # 2 THEN InvalidEmail
             ELSE LET local == parts[1]
                      domain == parts[2]
                      local_masked == IF Len(local) > 1
                                      THEN <<local[1]>> \o Stars
                                      ELSE <<"*">>
                  IN  local_masked \o <<"@">> \o domain


(***************************************************************************)
(* Uploaded CSV files.  A file is [cols, rows]; a row is a function from   *)
(* the file's column names to cell values.                                 *)
(***************************************************************************)
Required == {"Timestamp", "IP", "Status", "Request"}
Optional == {"ResponseTime", "Email"}
AllCols == Required \cup Optional

Digits == <<"0", "1", "2", "3", "4", "5", "6", "7", "8", "9">>
\* The address "10.0.<i div 10>.<i mod 10>".
IPn(i) == <<"1", "0", ".", "0", ".", Digits[(i \div 10) + 1], ".",
            Digits[(i % 10) + 1]>>

ParseableTimestamps == {"2024-01-01 10:00:00"}
RawTimestamps == ParseableTimestamps \cup {"garbage"}

EndpointOf(st) == IF st = 401 THEN "/login"
                  ELSE IF st = 403 THEN "/admin" ELSE "/home"
EmailOf(ip) == IF ip = IPn(1) THEN Str(<<"b", "o", "b", "@", "x">>)
               ELSE IF ip = IPn(2) THEN Str(<<"a", "@", "x">>)
               ELSE NaNValue

Event(ip, st, ts, rt) ==
    [IP |-> ip, Status |-> st, Request |-> EndpointOf(st), Timestamp |-> ts,
     ResponseTime |-> rt, Email |-> EmailOf(ip)]

GoodTimestamp == CHOOSE t \in ParseableTimestamps : TRUE

\* Log lines of the general data set, two clients: page views with or
\* without a parseable timestamp and a response time, failed logins and
\* forbidden requests.  IP is always a string and Status always an integer
\* (an empty Status cell would not be counted by "count", line 79).
Events ==
    {Event(ip, 200, ts, rt) :
        ip \in {IPn(1), IPn(2)}, ts \in RawTimestamps, rt \in {<<>>, <<3>>}}
    \cup {Event(ip, st, GoodTimestamp, <<3>>) :
            ip \in {IPn(1), IPn(2)}, st \in {401, 403}}

Restrict(e, cols) == [c \in cols |-> e[c]]

ColumnSets == {AllCols \ S : S \in {T \in SUBSET AllCols : Cardinality(T) <= 1}}
              \cup {Required}

DataFiles ==
    {[cols |-> c, rows |-> [i \in 1..Len(r) |-> Restrict(r[i], c)]] :
        c \in ColumnSets, r \in StringsUpTo(Events, MaxRows)}

(***************************************************************************)
(* Exceptions and the script's globals.                                    *)
(***************************************************************************)
NoErr == [type |-> "", line |-> 0]
Exc(t, l) == [type |-> t, line |-> l]

\* The globals of a script run before any file is processed: the title and
\* the uploader are rendered on every run (lines 49-51).
Fresh == [df |-> <<>>, agg |-> <<>>, Anomaly |-> <<>>, df_susp |-> <<>>,
          out |-> <<"title", "file_uploader">>, err |-> NoErr]

Raise(g, e) == [g EXCEPT !.err = e]
Emit(g, elems) == [g EXCEPT !.out = @ \o elems]

(***************************************************************************)
(* load_data (lines 26-44).                                                *)
(***************************************************************************)
\* status_map ... .fillna("Other")
StatusLabel(st) ==
    CASE st = 200 -> "Success"
      [] st = 401 -> "Unauthorized"
      [] st = 403 -> "Forbidden"
      [] st = 404 -> "Not Found"
      [] st = 500 -> "Server Error"
      [] OTHER -> "Other"

\* pd.to_datetime(..., errors="coerce"): NaT (<<>>) for what does not parse.
ParseTimestampKeep(raw) == <<raw>>
ParseTimestamp(raw) == IF raw \in ParseableTimestamps THEN <<raw>> ELSE <<>>

\* The body of load_data: [err, df].  A missing column raises KeyError at
\* the first line that indexes it.
load_data(file) ==
    IF "Status" \notin file.cols THEN [err |-> Exc("KeyError", 32), df |-> <<>>]
    ELSE IF "IP" \notin file.cols THEN [err |-> Exc("KeyError", 35), df |-> <<>>]
    ELSE IF "Timestamp" \notin file.cols
    THEN [err |-> Exc("KeyError", 42), df |-> <<>>]
    ELSE LET newcols == file.cols \cup {"Status_Label", "IP_Masked"}
                        \cup (IF "Email" \in file.cols THEN {"Email_Masked"} ELSE {})
             NewRow(r) ==
                 [c \in newcols |->
                     CASE c = "Status_Label" -> StatusLabel(r["Status"])
                       [] c = "IP_Masked" -> mask_ip(r["IP"])
                       [] c = "Email_Masked" -> mask_email(r["Email"])
                       [] c = "Timestamp" -> ParseTimestamp(r["Timestamp"])
                       [] OTHER -> r[c]]
         IN  [err |-> NoErr,
              df |-> <<[cols |-> newcols,
                        rows |-> [i \in 1..Len(file.rows) |-> NewRow(file.rows[i])]]>>]

\* @st.cache_data: a hit returns the stored frame, a miss runs the body and
\* stores its result unless it raised.
CachedLoad(file, store) ==
    IF file \in DOMAIN store THEN [err |-> NoErr, df |-> <<store[file]>>]
    ELSE load_data(file)

CacheAfter(file, store, ld) ==
    IF file \in DOMAIN store \/ ld.err # NoErr THEN store
    ELSE (file :> ld.df[1]) @@ store

(***************************************************************************)
(* Numbers of the feature table: NaN is <<>>, a number is a reduced        *)
(* fraction <<num, den>>.                                                  *)
(***************************************************************************)
RECURSIVE GCD(_, _)
GCD(a, b) == IF b = 0 THEN a ELSE GCD(b, a % b)

Num(n) == <<n, 1>>
Frac(n, d) == LET g == GCD(n, d) IN <<n \div g, d \div g>>

RECURSIVE SumSeq(_)
SumSeq(s) == IF Len(s) = 0 THEN 0 ELSE Head(s) + SumSeq(Tail(s))

Rows(g) == g.df[1].rows
Cols(g) == g.df[1].cols
RowsOf(rows, ip) == SelectSeq(rows, LAMBDA r : r["IP"] = ip)

\* "mean": NaN cells are skipped; a group with no value has mean NaN.
Mean(rows, col) ==
    LET present == SelectSeq(rows, LAMBDA r : r[col] # <<>>)
        vals == [i \in 1..Len(present) |-> present[i][col][1]]
    IN  IF Len(present) = 0 THEN <<>> ELSE Frac(SumSeq(vals), Len(present))

(***************************************************************************)
(* The script, top to bottom (lines 53-145).  Each stage maps the globals  *)
(* to the globals; a raised exception ends the run.                        *)
(***************************************************************************)
\* Lines 59-64.
Metrics(g) ==
    Emit(g, <<"metric:Total Requests", "metric:Unique IPs",
              "metric:Failed Requests", "metric:Suspicious Patterns">>)

\* Lines 69-70.
Preview(g) == Emit(g, <<"subheader:preview", "dataframe:head">>)

\* Lines 78-87: every key of the agg dict must be a column of df.
AggSpec == {"Status", "Request", "ResponseTime", "Timestamp"}

\* Lines 75-93.  "count" counts the non-null cells: every row for Status,
\* the rows whose timestamp parsed for Timestamp.  The size() columns are
\* reindexed with fill_value=0; the mean is not filled.
Aggregate(g) ==
    LET g1 == Emit(g, <<"subheader:features">>)
        rows == Rows(g)
        ips == {rows[i]["IP"] : i \in 1..Len(rows)}
        FeatureRow(ip) ==
            LET mine == RowsOf(rows, ip)
            IN  [Total_Requests |-> Num(Len(mine)),
                 Unique_Endpoints |->
                     Num(Cardinality({mine[i]["Request"] : i \in 1..Len(mine)})),
                 ResponseTime |-> Mean(mine, "ResponseTime"),
                 Request_Rate |->
                     Num(Len(SelectSeq(mine, LAMBDA r : r["Timestamp"] # <<>>))),
                 Failed_Logins |-> Num(Len(SelectSeq(mine, LAMBDA r : r["Status"] = 401))),
                 Forbidden_Count |-> Num(Len(SelectSeq(mine, LAMBDA r : r["Status"] = 403)))]
    IN  IF ~(AggSpec \subseteq Cols(g)) THEN Raise(g1, Exc("KeyError", 78))
        ELSE Emit([g1 EXCEPT !.agg = <<[ip \in ips |-> FeatureRow(ip)]>>],
                  <<"write:agg">>)

\* Lines 100-104.
Features(g) ==
    {"Total_Requests", "Unique_Endpoints", "Request_Rate", "Failed_Logins",
     "Forbidden_Count"}
    \cup (IF "ResponseTime" \in Cols(g) THEN {"ResponseTime"} ELSE {})

\* Line 106: X = agg[features].
X(g) == [ip \in DOMAIN g.agg[1] |-> [c \in Features(g) |-> g.agg[1][ip][c]]]

HasNaN(x) == \E ip \in DOMAIN x : \E c \in DOMAIN x[ip] : x[ip][c] = <<>>

(***************************************************************************)
(* IsolationForest(contamination=0.07, random_state=42).fit_predict(X)     *)
(* (lines 108-109).  The forest itself is scikit-learn's; what the script  *)
(* relies on is modelled here:                                             *)
(*  - score_samples is a function of the row, so equal rows score equal;   *)
(*  - with at most two distinct rows (and all rows in every tree, as for   *)
(*    n <= 256) every tree separates the two groups at the root and leaves *)
(*    each group in one leaf, so the path length 1 + c(size) orders the    *)
(*    scores by group size: the smaller group scores lower, equal groups   *)
(*    score equal;                                                         *)
(*  - offset_ is the contamination-th percentile of the scores (linear     *)
(*    interpolation) and a row is an outlier (-1) when its score is        *)
(*    strictly below it;                                                   *)
(*  - random_state fixes the forest, so the result is a function of X;     *)
(*  - an empty X raises ValueError; whether a NaN cell raises ValueError   *)
(*    depends on the scikit-learn release, so both outcomes are allowed.   *)
(* Scores are integers 0..MaxScore, lower = more anomalous.                *)
(***************************************************************************)
ContaminationPct == 7

\* Number of rows of x equal to row r.
GroupSize(x, r) == Cardinality({b \in DOMAIN x : x[b] = r})

AdmissibleScores(x) ==
    LET rws == Range(x)
        size == [r \in rws |-> GroupSize(x, r)]
        ordered == Cardinality(rws) <= 2 /\ ~HasNaN(x)
        perRow == {t \in [rws -> 0..MaxScore] :
                     ordered => \A r1, r2 \in rws :
                                   (t[r1] < t[r2]) <=> (size[r1] < size[r2])}
    IN  {[a \in DOMAIN x |-> t[x[a]]] : t \in perRow}

\* The k-th smallest score, k counted from 0.
Kth(s, k) ==
    CHOOSE v \in Range(s) :
        /\ Cardinality({a \in DOMAIN s : s[a] < v}) <= k
        /\ k < Cardinality({a \in DOMAIN s : s[a] <= v})

\* 100 * np.percentile(scores, 100 * contamination).
Offset100(s) ==
    LET pos == ContaminationPct * (Cardinality(DOMAIN s) - 1)
        k == pos \div 100
        r == pos % 100
    IN  IF r = 0 THEN 100 * Kth(s, k)
        ELSE 100 * Kth(s, k) + r * (Kth(s, k + 1) - Kth(s, k))

\* predict: -1 where decision_function < 0, else 1.
PredictInclusive(s) ==
    LET offset == Offset100(s)
    IN  [a \in DOMAIN s |-> IF 100 * s[a] <= offset THEN -1 ELSE 1]
Predict(s) ==
    LET offset == Offset100(s)
    IN  [a \in DOMAIN s |-> IF 100 * s[a] < offset THEN -1 ELSE 1]

Fitted(labels) == [err |-> NoErr, labels |-> <<labels>>]
FitError == [err |-> Exc("ValueError", 109), labels |-> <<>>]

\* The possible results of fit_predict(X) given what this forest (seed 42)
\* has already returned.
FitPredictUnseeded(x, memo) ==
    IF DOMAIN x = {} THEN {FitError}
    ELSE {Fitted(Predict(s)) : s \in AdmissibleScores(x)}
         \cup (IF HasNaN(x) THEN {FitError} ELSE {})
FitPredict(x, memo) ==
    IF x \in DOMAIN memo THEN {memo[x]}
    ELSE IF DOMAIN x = {} THEN {FitError}
    ELSE {Fitted(Predict(s)) : s \in AdmissibleScores(x)}
         \cup (IF HasNaN(x) THEN {FitError} ELSE {})

\* Lines 98-110, given the result fr of fit_predict.
Detect(g, fr) ==
    LET g1 == Emit(g, <<"subheader:anomaly">>)
    IN  IF fr.err # NoErr THEN Raise(g1, fr.err)
        ELSE [g1 EXCEPT !.Anomaly = fr.labels]

\* Line 110.
Anomaly_Label(g, ip) == IF g.Anomaly[1][ip] = 1 THEN "Normal" ELSE "Suspicious"

\* Lines 115-125.
Visualize(g) ==
    Emit(g, <<"subheader:distribution", "pyplot", "subheader:summary",
              "write:value_counts">>)

\* Line 132: the index of agg[agg["Anomaly"] == -1].
suspicious_ips(g) == {ip \in DOMAIN g.Anomaly[1] : g.Anomaly[1][ip] = -1}

\* Lines 130-145.
ReportAll(g) ==
    LET g1 == Emit(g, <<"subheader:suspicious">>)
    IN  IF suspicious_ips(g) = {} THEN Emit(g1, <<"success">>)
        ELSE Emit([g1 EXCEPT !.df_susp = <<Rows(g)>>],
                  <<"dataframe:suspicious", "warning">>)
Report(g) ==
    LET g1 == Emit(g, <<"subheader:suspicious">>)
    IN  IF suspicious_ips(g) = {} THEN Emit(g1, <<"success">>)
        ELSE Emit([g1 EXCEPT !.df_susp =
                       <<SelectSeq(Rows(g), LAMBDA r : r["IP"] \in suspicious_ips(g))>>],
                  <<"dataframe:suspicious", "warning">>)

\* Lines 53-93: the run up to the feature table.
Prefix(ld) ==
    IF ld.err # NoErr THEN Raise(Fresh, ld.err)
    ELSE Aggregate(Preview(Metrics([Fresh EXCEPT !.df = ld.df])))

\* Lines 98-145.
Suffix(g, fr) ==
    LET g1 == Detect(g, fr)
    IN  IF g1.err # NoErr THEN g1 ELSE Report(Visualize(g1))

(***************************************************************************)
(* Actions: one script run per user interaction.                           *)
(***************************************************************************)
Snapshot(file, g) ==
    [uploaded_file |-> file, agg |-> g.agg, Anomaly |-> g.Anomaly,
     df_susp |-> g.df_susp, out |-> g.out, err |-> g.err]

Commit(file, g, store, memo) ==
    /\ uploaded_file' = <<file>>
    /\ df' = g.df
    /\ agg' = g.agg
    /\ Anomaly' = g.Anomaly
    /\ df_susp' = g.df_susp
    /\ out' = g.out
    /\ err' = g.err
    /\ cache' = store
    /\ forest' = memo
    /\ first' = IF first = <<>> THEN <<Snapshot(file, g)>> ELSE first
    /\ runs' = runs + 1
    /\ UNCHANGED maskVars

\* One execution of the script with `file` in the uploader.
RunScript(file) ==
    /\ runs < MaxRuns
    /\ LET ld == CachedLoad(file, cache)
           store == CacheAfter(file, cache, ld)
           g == Prefix(ld)
       IN  IF g.err # NoErr THEN Commit(file, g, store, forest)
           ELSE \E fr \in FitPredict(X(g), forest) :
                   Commit(file, Suffix(g, fr), store, (X(g) :> fr) @@ forest)

(***************************************************************************)
(* Further data sets.                                                      *)
(***************************************************************************)
\* The rows, in client order from client i on, of the log in which client j
\* sends one request with status pick[j] (0: the client is absent).
RECURSIVE OneEach(_, _, _)
OneEach(pick, i, n) ==
    IF i > n THEN <<>>
    ELSE (IF pick[i] = 0 THEN <<>>
          ELSE <<Event(IPn(i), pick[i], GoodTimestamp, <<3>>)>>)
         \o OneEach(pick, i + 1, n)

\* Crowds: up to MaxActors clients with one request each, a plain page view
\* or a failed login.
CrowdFiles ==
    {[cols |-> AllCols, rows |-> OneEach(pick, 1, MaxActors)] :
        pick \in [1..MaxActors -> {0, 200, 401}]}

Files == DataFiles \cup CrowdFiles

\* Logs for repeated runs: client i, when present, sends one request whose
\* status differs from the other clients'.
StatusOfClient(i) == <<200, 401, 403, 404, 500>>[((i - 1) % 5) + 1]
RepeatFiles ==
    {[cols |-> AllCols,
      rows |-> OneEach([i \in 1..MaxRepeatActors |->
                           IF i \in S THEN StatusOfClient(i) ELSE 0],
                       1, MaxRepeatActors)] :
        S \in SUBSET (1..MaxRepeatActors)}

(***************************************************************************)
(* The dashboard: uploads, reruns, clearing the uploader.                  *)
(***************************************************************************)
PipeInit ==
    /\ uploaded_file = <<>>
    /\ df = Fresh.df
    /\ agg = Fresh.agg
    /\ Anomaly = Fresh.Anomaly
    /\ df_susp = Fresh.df_susp
    /\ out = Fresh.out
    /\ err = Fresh.err
    /\ cache = <<>>
    /\ forest = <<>>
    /\ first = <<>>
    /\ runs = 0

MaskIdle ==
    /\ maskFn = ""
    /\ maskIn = NaNValue
    /\ maskOut = <<>>

Init == PipeInit /\ MaskIdle

\* The user drops a file into the empty uploader; the script reruns.
Upload == uploaded_file = <<>> /\ \E file \in Files : RunScript(file)

UploadRepeat == uploaded_file = <<>> /\ \E file \in RepeatFiles : RunScript(file)

\* Any other interaction reruns the script with the same file.
Rerun == uploaded_file # <<>> /\ RunScript(uploaded_file[1])

\* The user removes the file: the script reruns and stops at line 53.
Clear ==
    /\ uploaded_file # <<>>
    /\ uploaded_file' = <<>>
    /\ df' = Fresh.df
    /\ agg' = Fresh.agg
    /\ Anomaly' = Fresh.Anomaly
    /\ df_susp' = Fresh.df_susp
    /\ out' = Fresh.out
    /\ err' = Fresh.err
    /\ UNCHANGED <<cache, forest, first, runs, maskFn, maskIn, maskOut>>

Next == Upload

Spec == Init /\ [][Next]_vars

NextRepeat == UploadRepeat \/ Rerun \/ Clear

SpecRepeat == Init /\ [][NextRepeat]_vars

(***************************************************************************)
(* The masking helpers applied to arbitrary cell values.                   *)
(***************************************************************************)
IpInputs == {Str(s) : s \in StringsUpTo({"a", "."}, MaxIpLen)} \cup {NaNValue}
EmailInputs ==
    {Str(s) : s \in StringsUpTo({"a", "b", "@"}, MaxEmailLen)} \cup {NaNValue}

InitMask ==
    /\ PipeInit
    /\ maskFn \in {"ip", "email"}
    /\ maskIn \in (IF maskFn = "ip" THEN IpInputs ELSE EmailInputs)
    /\ maskOut = <<>>

Returned(v) == [raised |-> FALSE, value |-> v]
Raised == [raised |-> TRUE, value |-> <<>>]

\* Line 35: the lambda; .split on a non-string raises AttributeError.
ApplyMaskIp ==
    /\ maskFn = "ip"
    /\ maskOut = <<>>
    /\ maskOut' = <<IF maskIn.isStr THEN Returned(mask_ip(maskIn.s)) ELSE Raised>>
    /\ UNCHANGED <<maskFn, maskIn>>
    /\ UNCHANGED pipeVars

\* Line 39: mask_email never raises.
ApplyMaskEmail ==
    /\ maskFn = "email"
    /\ maskOut = <<>>
    /\ maskOut' = <<Returned(mask_email(maskIn))>>
    /\ UNCHANGED <<maskFn, maskIn>>
    /\ UNCHANGED pipeVars

NextMask == ApplyMaskIp \/ ApplyMaskEmail

SpecMask == InitMask /\ [][NextMask]_vars

(***************************************************************************)
(* Properties.                                                             *)
(***************************************************************************)
Ran == uploaded_file # <<>>
File == uploaded_file[1]
Emitted(e) == \E i \in 1..Len(out) : out[i] = e
Scored == Ran /\ Anomaly # <<>>
Actors == DOMAIN agg[1]
Suspicious == {ip \in DOMAIN Anomaly[1] : Anomaly[1][ip] = -1}
FeatureCols == Features([df |-> df])
AllTied == \A a, b \in Actors : agg[1][a] = agg[1][b]

\* Python round(num / den): to nearest, halves to even.
RoundHalfEven(num, den) ==
    LET q == num \div den
        r2 == 2 * (num % den)
    IN  IF r2 < den THEN q
        ELSE IF r2 > den THEN q + 1
        ELSE IF q % 2 = 0 THEN q ELSE q + 1

Dense == \A ip \in Actors : \A c \in FeatureCols : agg[1][ip][c] # <<>>

\* C1 as stated: after scoring a valid (dense) feature table of n >= 1
\* actors, exactly round(0.07 * n) of them are Suspicious, ties included.
C1_ExactlyRounded ==
    (Scored /\ Dense) =>
        Cardinality(Suspicious)
            = RoundHalfEven(ContaminationPct * Cardinality(Actors), 100)

\* C1 amended: actors with equal feature rows (equal scores) get the same
\* label, at most floor(0.07 * (n - 1)) + 1 actors are Suspicious, and none
\* is when all actors tie.
C1_PercentileThreshold ==
    Scored =>
        /\ \A a, b \in Actors :
              agg[1][a] = agg[1][b] => Anomaly[1][a] = Anomaly[1][b]
        /\ Cardinality(Suspicious)
              <= ((ContaminationPct * (Cardinality(Actors) - 1)) \div 100) + 1
        /\ AllTied => Suspicious = {}

C1_Witness ==
    /\ Scored
    /\ Cardinality(Actors) >= 8
    /\ AllTied
    /\ Suspicious = {}

\* Characters of s before its second "." (all of s when it has fewer).
UpToSecondDot(s) ==
    LET dots == {i \in 1..Len(s) : s[i] = "."}
        second == {i \in dots : Cardinality({j \in dots : j < i}) = 1}
    IN  IF second = {} THEN s
        ELSE SubSeq(s, 1, (CHOOSE i \in second : TRUE) - 1)

MaskTail == <<".", "x", "x", "x", ".", "x", "x", "x">>
IpMasked == maskFn = "ip" /\ maskOut # <<>> /\ maskIn.isStr

\* C2 as stated: a string of exactly 4 dot-separated groups is masked to its
\* first two groups plus ".xxx.xxx", any other string passes through
\* unchanged.
C2_MalformedPassThrough ==
    IpMasked =>
        /\ ~maskOut[1].raised
        /\ maskOut[1].value =
              IF CountChar(maskIn.s, ".") = 3
              THEN UpToSecondDot(maskIn.s) \o MaskTail
              ELSE maskIn.s

\* C2 amended: every string is masked to what precedes its second dot (the
\* whole string when it has fewer than two dots) plus ".xxx.xxx"; malformed
\* strings are not passed through, and no string input raises.
C2_FirstTwoGroupsThenMask ==
    IpMasked =>
        /\ ~maskOut[1].raised
        /\ maskOut[1].value = UpToSecondDot(maskIn.s) \o MaskTail

C2_Witness ==
    /\ IpMasked
    /\ CountChar(maskIn.s, ".") = 4
    /\ maskOut[1].value # maskIn.s
    /\ maskOut[1].value = UpToSecondDot(maskIn.s) \o MaskTail

SomeResponseTime ==
    \E i \in 1..Len(File.rows) : File.rows[i]["ResponseTime"] # <<>>

\* C3: when some event carries a response time, every cell of the feature
\* matrix handed to scoring is a number, also for an actor none of whose
\* events carries one.
C3_DenseFeatureMatrix == (Ran /\ agg # <<>> /\ SomeResponseTime) => Dense

FiveFeatures ==
    {"Total_Requests", "Unique_Endpoints", "Request_Rate", "Failed_Logins",
     "Forbidden_Count"}

\* C4: without a ResponseTime column, aggregation completes, the feature
\* table has exactly the five count columns and scoring proceeds; with the
\* column, every actor has the response-time feature.
C4_OptionalResponseTime ==
    (Ran /\ Required \subseteq File.cols /\ Len(File.rows) >= 1) =>
        IF "ResponseTime" \in File.cols
        THEN agg # <<>> /\ \A ip \in Actors : "ResponseTime" \in DOMAIN agg[1][ip]
        ELSE /\ err = NoErr
             /\ agg # <<>>
             /\ FeatureCols = FiveFeatures
             /\ Anomaly # <<>>

\* C5: a missing required column ends the run in an error before anything
\* is computed or rendered for the data set.
C5_SchemaErrorBeforeOutput ==
    (Ran /\ ~(Required \subseteq File.cols)) =>
        /\ err # NoErr
        /\ out = Fresh.out
        /\ agg = <<>>
        /\ Anomaly = <<>>

\* C6: a data set with no rows ends in an error with nothing rendered for
\* it, and never in the "No suspicious IPs detected" outcome.
C6_EmptyNoPartialOutput ==
    (Ran /\ AllCols \subseteq File.cols /\ File.rows = <<>>) =>
        /\ err # NoErr
        /\ out = Fresh.out
        /\ ~Emitted("success")

\* C7: a string with exactly one "@" is masked to the first character of its
\* local part plus "***" (to "*" when the local part has at most one
\* character), "@" and the domain unchanged; anything else gives "Invalid
\* Email"; nothing is raised.
C7_MaskEmail ==
    (maskFn = "email" /\ maskOut # <<>>) =>
        /\ ~maskOut[1].raised
        /\ maskOut[1].value =
              IF maskIn.isStr /\ CountChar(maskIn.s, "@") = 1
              THEN LET at == FirstIndex(maskIn.s, "@")
                       local == SubSeq(maskIn.s, 1, at - 1)
                       domain == SubSeq(maskIn.s, at + 1, Len(maskIn.s))
                   IN  (IF Len(local) > 1 THEN <<local[1], "*", "*", "*">>
                        ELSE <<"*">>) \o <<"@">> \o domain
              ELSE <<"Invalid Email">>

C7_Witness ==
    /\ maskFn = "email"
    /\ maskOut # <<>>
    /\ maskIn.isStr
    /\ FirstIndex(maskIn.s, "@") = 2
    /\ CountChar(maskIn.s, "@") = 1
    /\ Len(maskIn.s) >= 3
    /\ maskOut[1].value = <<"*", "@">> \o SubSeq(maskIn.s, 3, Len(maskIn.s))

\* Events of the uploaded file sent by ip / those with a parseable timestamp.
EventsOf(ip) == {i \in 1..Len(File.rows) : File.rows[i]["IP"] = ip}
TimedEventsOf(ip) ==
    {i \in EventsOf(ip) : File.rows[i]["Timestamp"] \in ParseableTimestamps}

SuspiciousRows == IF df_susp = <<>> THEN <<>> ELSE df_susp[1]

\* C9: every actor has one label, 1 (Normal) or -1 (Suspicious); the
\* reported events are exactly the events of Suspicious actors; the "no
\* suspicious IPs" outcome is reached exactly when no actor is Suspicious.
C9_SuspiciousSubset ==
    (Scored /\ err = NoErr) =>
        /\ DOMAIN Anomaly[1] = Actors
        /\ \A ip \in Actors :
              /\ Anomaly[1][ip] \in {1, -1}
              /\ Anomaly_Label([Anomaly |-> Anomaly], ip) \in {"Normal", "Suspicious"}
              /\ Anomaly_Label([Anomaly |-> Anomaly], ip) = "Suspicious"
                    <=> ip \in Suspicious
        /\ \A i \in 1..Len(SuspiciousRows) :
              /\ SuspiciousRows[i]["IP"] \in Suspicious
              /\ SuspiciousRows[i] \in Range(df[1].rows)
        /\ Len(SuspiciousRows)
              = Cardinality({i \in 1..Len(df[1].rows) :
                                df[1].rows[i]["IP"] \in Suspicious})
        /\ (SuspiciousRows = <<>>) <=> (Suspicious = {})
        /\ Emitted("success") <=> (Suspicious = {})
        /\ Emitted("dataframe:suspicious") <=> (Suspicious # {})

C9_Witness ==
    /\ Scored
    /\ err = NoErr
    /\ Suspicious # {}
    /\ Suspicious # Actors
    /\ Len(SuspiciousRows) = 1
    /\ Len(df[1].rows) >= 3

====
